---- MODULE Spec2Model ----
(***************************************************************************)
(* Model of agent_architectures_interactive.py: the two response           *)
(* post-processors (extract_response_text, extract_story_from_loop_        *)
(* response), the interactive loop AgentArchitecturesDemo.run, and the     *)
(* four agent graphs the demos wire together.                              *)
(*                                                                         *)
(* A text is a sequence of one-character strings; len() is Len, ''.join is *)
(* concatenation, `in` is Contains.  A character outside ASCII is written  *)
(* by its code point, as in "U+3000".  The fixed messages the extractors   *)
(* return are texts like any other.  An attribute of a Python object is a  *)
(* value, the marker None, or the marker Absent (hasattr is false).        *)
(***************************************************************************)
EXTENDS Integers, Sequences, FiniteSets, TLC

VARIABLES
  response,      \* the event list a runner returned, given to an extractor
  text_result,   \* what extract_response_text returned
  story_result,  \* what extract_story_from_loop_response returned
  pc,            \* where run() is: menu, dispatch, prompt, runner, pause, handler, exited, raised
  choice,        \* run(): choice
  demo,          \* the demo being awaited (0: none)
  demoStarts,    \* how many times each demo coroutine was started
  out,           \* the last message printed
  topic,         \* topic / prompt of the running demo
  reads,         \* lines consumed from standard input
  eof,           \* standard input has reached its end
  seq_idx,       \* runner: position in the root agent's sub_agents
  loop_idx,      \* runner: position in the LoopAgent's sub_agents
  times_looped,  \* runner: completed iterations of the LoopAgent
  astatus,       \* runner: each agent idle, running or done
  runs,          \* runner: how many times each agent was started in this run
  state,         \* runner: the session state keys written (output_key)
  critique,      \* runner: state['critique'] as CriticAgent last wrote it
  escalate,      \* runner: an event asked the enclosing LoopAgent to stop
  exit_loop_status \* the status exit_loop last returned ("" before any call)

xvars == <<response, text_result, story_result>>
ivars == <<reads, eof>>
gvars == <<seq_idx, loop_idx, times_looped, astatus, runs, state, critique, escalate,
           exit_loop_status>>
rvars == <<pc, choice, demo, demoStarts, out, topic>>
vars == <<xvars, ivars, gvars, rvars>>

----------------------------------------------------------------------------
(* Texts *)

None == <<"<None>">>
Absent == <<"<absent>">>
Unset == <<"<unset>">>

Fill(c, n) == [i \in 1..n |-> c]

Contains(s, sub) ==
  \E i \in 0..(Len(s) - Len(sub)) : SubSeq(s, i + 1, i + Len(sub)) = sub

APPROVED == <<"A", "P", "P", "R", "O", "V", "E", "D">>

\* `hasattr(x, 'text') and x.text`: the attribute exists and is a non-empty string
Truthy(t) == t # Absent /\ t # None /\ t # <<>>

\* len(story_text) > 50 and len(part.text) > 50
StoryMinLen == 50

NoResponseMsg ==
  <<"N", "o", " ", "r", "e", "s", "p", "o", "n", "s", "e", " ", "r", "e",
    "c", "e", "i", "v", "e", "d", ".">>
NotExtractedMsg ==
  <<"R", "e", "s", "p", "o", "n", "s", "e", " ", "r", "e", "c", "e", "i",
    "v", "e", "d", " ", "b", "u", "t", " ", "t", "e", "x", "t", " ", "c",
    "o", "n", "t", "e", "n", "t", " ", "c", "o", "u", "l", "d", " ", "n",
    "o", "t", " ", "b", "e", " ", "e", "x", "t", "r", "a", "c", "t", "e",
    "d", ".">>
FunctionExecutedPrefix ==
  <<"F", "u", "n", "c", "t", "i", "o", "n", " ", "e", "x", "e", "c", "u",
    "t", "e", "d", ":", " ">>
TaskCompleted ==
  <<"T", "a", "s", "k", " ", "c", "o", "m", "p", "l", "e", "t", "e", "d">>

----------------------------------------------------------------------------
(* The response object graph: response -> event -> content -> parts *)

\* event.content is truthy
HasContent(e) == e.cst = "obj"

\* hasattr(content, 'parts') and content.parts
HasParts(e) == HasContent(e) /\ e.content.pst = "list" /\ e.content.parts # <<>>

\* `if hasattr(part, 'text') and part.text`
PartHasText(p) == Truthy(p.text)

\* `if hasattr(part, 'text') and part.text and len(part.text) > 50`
PartHasLongText(p) == Truthy(p.text) /\ Len(p.text) > StoryMinLen

RECURSIVE JoinText(_)
\* ''.join(text_parts), text_parts holding part.text of every part with text
JoinText(parts) ==
  IF parts = <<>> THEN <<>>
  ELSE (IF PartHasText(Head(parts)) THEN Head(parts).text ELSE <<>>) \o JoinText(Tail(parts))

RECURSIVE JoinLongText(_)
\* ''.join(text_parts), text_parts holding part.text of every part with text over 50
JoinLongText(parts) ==
  IF parts = <<>> THEN <<>>
  ELSE (IF PartHasLongText(Head(parts)) THEN Head(parts).text ELSE <<>>)
         \o JoinLongText(Tail(parts))

\* `if text_parts:` after either loop
AnyText(parts) == \E i \in 1..Len(parts) : PartHasText(parts[i])
AnyLongText(parts) == \E i \in 1..Len(parts) : PartHasLongText(parts[i])

----------------------------------------------------------------------------
(* extract_response_text *)

\* variant: response[0] read instead of response[-1]
TextTrace_first_event(r) ==
  IF r.isNone \/ r.events = <<>> THEN [value |-> NoResponseMsg, level |-> 0]
  ELSE LET last_event == r.events[1] IN
    IF HasParts(last_event) /\ AnyText(last_event.content.parts)
    THEN [value |-> JoinText(last_event.content.parts), level |-> 1]
    ELSE IF HasContent(last_event) /\ last_event.content.text # Absent
    THEN [value |-> last_event.content.text, level |-> 2]
    ELSE IF last_event.text # Absent THEN [value |-> last_event.text, level |-> 3]
    ELSE IF last_event.output_key # Absent
    THEN [value |-> FunctionExecutedPrefix
                      \o (IF Truthy(last_event.output_key) THEN last_event.output_key
                          ELSE TaskCompleted),
          level |-> 4]
    ELSE [value |-> NotExtractedMsg, level |-> 5]

\* level is the return statement taken: 0 "No response received.", 1 the text of
\* the parts, 2 content.text, 3 event.text, 4 output_key, 5 the safe fallback
TextTrace(r) ==
  IF r.isNone \/ r.events = <<>> THEN [value |-> NoResponseMsg, level |-> 0]
  ELSE LET last_event == r.events[Len(r.events)] IN
    IF HasParts(last_event) /\ AnyText(last_event.content.parts)
    THEN [value |-> JoinText(last_event.content.parts), level |-> 1]
    ELSE IF HasContent(last_event) /\ last_event.content.text # Absent
    THEN [value |-> last_event.content.text, level |-> 2]
    ELSE IF last_event.text # Absent THEN [value |-> last_event.text, level |-> 3]
    ELSE IF last_event.output_key # Absent
    THEN [value |-> FunctionExecutedPrefix
                      \o (IF Truthy(last_event.output_key) THEN last_event.output_key
                          ELSE TaskCompleted),
          level |-> 4]
    ELSE [value |-> NotExtractedMsg, level |-> 5]

extract_response_text(r) == TextTrace(r).value

----------------------------------------------------------------------------
(* extract_story_from_loop_response *)

\* any(hasattr(part, 'function_call') for part in parts if hasattr(part, 'function_call'))
has_function_call(parts) == \E i \in 1..Len(parts) : parts[i].fc # "absent"

\* the text scan of one event reaches `return story_text`
ScanHit(e) ==
  /\ HasParts(e)
  /\ ~has_function_call(e.content.parts)
  /\ AnyText(e.content.parts)
  /\ LET story_text == JoinText(e.content.parts) IN
       Len(story_text) > StoryMinLen /\ ~Contains(story_text, APPROVED)

\* the RefinerAgent author match of one event reaches its return
RefinerHit(e) ==
  /\ e.author = "RefinerAgent"
  /\ HasParts(e)
  /\ AnyLongText(e.content.parts)

RECURSIVE StoryScan(_, _)
\* for event in reversed(response), from index i down.  value is the text returned,
\* branch the return statement taken, idx the index of the event the text was read
\* from (0 when it is read from no event)
StoryScan(r, i) ==
  IF i = 0
  THEN [value |-> extract_response_text(r),
        idx |-> IF TextTrace(r).level \in {1, 2, 3} THEN Len(r.events) ELSE 0,
        branch |-> "fallback"]
  ELSE LET event == r.events[i] IN
    IF ScanHit(event)
    THEN [value |-> JoinText(event.content.parts), idx |-> i, branch |-> "scan"]
    ELSE IF RefinerHit(event)
    THEN [value |-> JoinLongText(event.content.parts), idx |-> i, branch |-> "refiner"]
    ELSE StoryScan(r, i - 1)

StoryTrace(r) ==
  IF r.isNone \/ r.events = <<>>
  THEN [value |-> NoResponseMsg, idx |-> 0, branch |-> "empty"]
  ELSE StoryScan(r, Len(r.events))

extract_story_from_loop_response(r) == StoryTrace(r).value

----------------------------------------------------------------------------
(* Standard input: input() returns the next line or raises EOFError; the stream *)
(* is finite and its end is permanent.  An interrupt (Ctrl-C) is modelled where *)
(* run() awaits a demo, not at the console prompts: it cancels the awaited task *)
(* (CancelledError) or, landing in synchronous code, raises KeyboardInterrupt.  *)

MaxInput == 4

InputLines ==
  { <<"1">>, <<"2">>, <<"3">>, <<"4">>, <<"5">>, <<"6">>, <<"7">>, <<>>,
    <<" ", "2", " ">>, <<"1", "2">>, <<"2", "\r">>, <<"\f", "7", "\r">>,
    <<"U+3000", "3">>, <<"U+00E9", "2", "U+00E9">> }

\* the 29 characters str.strip() removes (str.isspace()): U+0009..U+000D,
\* U+001C..U+001F, U+0020, and outside ASCII U+0085, U+00A0, U+1680,
\* U+2000..U+200A, U+2028, U+2029, U+202F, U+205F, U+3000
Whitespace ==
  { " ", "\t", "\n", "\r", "\f", "", "", "", "", "",
    "U+0085", "U+00A0", "U+1680",
    "U+2000", "U+2001", "U+2002", "U+2003", "U+2004", "U+2005", "U+2006",
    "U+2007", "U+2008", "U+2009", "U+200A",
    "U+2028", "U+2029", "U+202F", "U+205F", "U+3000" }

RECURSIVE lstrip(_)
lstrip(s) == IF s # <<>> /\ Head(s) \in Whitespace THEN lstrip(Tail(s)) ELSE s

RECURSIVE rstrip(_)
rstrip(s) ==
  IF s # <<>> /\ s[Len(s)] \in Whitespace THEN rstrip(SubSeq(s, 1, Len(s) - 1)) ELSE s

\* str.strip()
strip(s) == rstrip(lstrip(s))

\* input(...) returns line
InputLine(line) ==
  /\ ~eof
  /\ reads < MaxInput
  /\ line \in InputLines
  /\ reads' = reads + 1
  /\ eof' = eof

\* input(...) raises EOFError
InputEOF ==
  /\ eof' = TRUE
  /\ reads' = reads

----------------------------------------------------------------------------
(* The agent graphs the four demos build *)

Agents ==
  { "ResearchCoordinator", "ResearchAgent", "SummarizerAgent",
    "OutlineAgent", "WriterAgent", "EditorAgent",
    "TechResearcher", "HealthResearcher", "FinanceResearcher", "AggregatorAgent",
    "InitialWriterAgent", "CriticAgent", "RefinerAgent" }

\* variant: the first two sub-agents of the blog pipeline listed in the wrong order
BlogPipeline_sub_agents_swapped == <<"WriterAgent", "OutlineAgent", "EditorAgent">>

BlogPipeline_sub_agents == <<"OutlineAgent", "WriterAgent", "EditorAgent">>

ParallelResearchTeam_sub_agents ==
  <<"TechResearcher", "HealthResearcher", "FinanceResearcher">>

\* variant: the aggregator listed before the parallel team
ResearchSystem_sub_agents_swapped == <<"AggregatorAgent", "ParallelResearchTeam">>

ResearchSystem_sub_agents == <<"ParallelResearchTeam", "AggregatorAgent">>

StoryRefinementLoop_sub_agents == <<"CriticAgent", "RefinerAgent">>

StoryPipeline_sub_agents == <<"InitialWriterAgent", "StoryRefinementLoop">>

\* variant: the loop allowed one more iteration than the code's
max_iterations_three == 2 + 1

max_iterations == 2

sub_agents(n) ==
  CASE n = "BlogPipeline" -> BlogPipeline_sub_agents
    [] n = "ParallelResearchTeam" -> ParallelResearchTeam_sub_agents
    [] n = "ResearchSystem" -> ResearchSystem_sub_agents
    [] n = "StoryRefinementLoop" -> StoryRefinementLoop_sub_agents
    [] n = "StoryPipeline" -> StoryPipeline_sub_agents
    [] OTHER -> <<>>

\* the class each node is built with
Kind(n) ==
  CASE n \in {"BlogPipeline", "ResearchSystem", "StoryPipeline"} -> "sequential"
    [] n = "ParallelResearchTeam" -> "parallel"
    [] n = "StoryRefinementLoop" -> "loop"
    [] OTHER -> "agent"

\* output_key= of each Agent ("" when it has none)
output_key(a) ==
  CASE a = "ResearchAgent" -> "research_findings"
    [] a = "SummarizerAgent" -> "final_summary"
    [] a = "OutlineAgent" -> "blog_outline"
    [] a = "WriterAgent" -> "blog_draft"
    [] a = "EditorAgent" -> "final_blog"
    [] a = "TechResearcher" -> "tech_research"
    [] a = "HealthResearcher" -> "health_research"
    [] a = "FinanceResearcher" -> "finance_research"
    [] a = "AggregatorAgent" -> "executive_summary"
    [] a = "InitialWriterAgent" -> "current_story"
    [] a = "CriticAgent" -> "critique"
    [] a = "RefinerAgent" -> "current_story"
    [] OTHER -> ""

\* tools=[AgentTool(...), ...] of each Agent
agent_tools(a) ==
  IF a = "ResearchCoordinator" THEN {"ResearchAgent", "SummarizerAgent"} ELSE {}

\* tools=[FunctionTool(...)] of each Agent
function_tools(a) == IF a = "RefinerAgent" THEN {"exit_loop"} ELSE {}

\* def exit_loop(): the value it returns.  It takes no tool context and sets
\* nothing: in particular it never asks the LoopAgent to stop (escalate stays FALSE)
exit_loop ==
  [status |-> "approved", message |-> "Story approved. Exiting refinement loop."]

\* root_agent of demo k, given to InMemoryRunner(agent=root_agent)
root_agent(k) ==
  CASE k = 1 -> "ResearchCoordinator"
    [] k = 2 -> "BlogPipeline"
    [] k = 3 -> "ResearchSystem"
    [] k = 4 -> "StoryPipeline"

----------------------------------------------------------------------------
(* The runner: how the SDK executes a graph (SequentialAgent in order,     *)
(* ParallelAgent concurrently, LoopAgent repeatedly up to max_iterations   *)
(* or until an event escalates).  An agent run starts, then finishes and   *)
(* writes its output_key, or raises.                                       *)

MaxToolCalls == 2

RunList(k) ==
  IF Kind(root_agent(k)) = "sequential" THEN sub_agents(root_agent(k))
  ELSE <<root_agent(k)>>

RunnerDone == seq_idx > Len(RunList(demo))

Current == RunList(demo)[seq_idx]

Members(n) == { sub_agents(n)[i] : i \in 1..Len(sub_agents(n)) }

CanStart(a) ==
  /\ ~RunnerDone
  /\ astatus[a] = "idle"
  /\ CASE Kind(Current) = "agent" -> a = Current
       [] Kind(Current) = "parallel" -> a \in Members(Current)
       [] Kind(Current) = "loop" ->
            /\ times_looped < max_iterations
            /\ loop_idx <= Len(sub_agents(Current))
            /\ a = sub_agents(Current)[loop_idx]
       [] OTHER -> FALSE

GInit ==
  /\ seq_idx = 1
  /\ loop_idx = 1
  /\ times_looped = 0
  /\ astatus = [a \in Agents |-> "idle"]
  /\ runs = [a \in Agents |-> 0]
  /\ state = {}
  /\ critique = ""
  /\ escalate = FALSE
  /\ exit_loop_status = ""

\* runner = InMemoryRunner(agent=root_agent): a fresh session
NewRunner ==
  /\ seq_idx' = 1
  /\ loop_idx' = 1
  /\ times_looped' = 0
  /\ astatus' = [a \in Agents |-> "idle"]
  /\ runs' = [a \in Agents |-> 0]
  /\ state' = {}
  /\ critique' = ""
  /\ escalate' = FALSE
  /\ exit_loop_status' = ""

AgentStart(a) ==
  /\ pc = "runner"
  /\ CanStart(a)
  /\ astatus' = [astatus EXCEPT ![a] = "running"]
  /\ runs' = [runs EXCEPT ![a] = @ + 1]
  /\ UNCHANGED <<seq_idx, loop_idx, times_looped, state, critique, escalate,
                 exit_loop_status>>
  /\ UNCHANGED <<xvars, ivars, rvars>>

\* the position after agent a, a sub-agent of the current node, has finished
AfterFinish(a) ==
  LET n == Current
      done == [astatus EXCEPT ![a] = "done"]
  IN
  CASE Kind(n) = "agent" ->
         [seq |-> seq_idx + 1, lidx |-> loop_idx, looped |-> times_looped, st |-> done]
    [] Kind(n) = "parallel" ->
         [seq |-> IF \A b \in Members(n) : done[b] = "done" THEN seq_idx + 1 ELSE seq_idx,
          lidx |-> loop_idx, looped |-> times_looped, st |-> done]
    [] Kind(n) = "loop" ->
         IF escalate
         THEN [seq |-> seq_idx + 1, lidx |-> 1, looped |-> times_looped, st |-> done]
         ELSE IF loop_idx < Len(sub_agents(n))
         THEN [seq |-> seq_idx, lidx |-> loop_idx + 1, looped |-> times_looped, st |-> done]
         ELSE IF times_looped + 1 < max_iterations
         THEN [seq |-> seq_idx, lidx |-> 1, looped |-> times_looped + 1,
               st |-> [b \in Agents |-> IF b \in Members(n) THEN "idle" ELSE done[b]]]
         ELSE [seq |-> seq_idx + 1, lidx |-> 1, looped |-> times_looped + 1, st |-> done]

AgentFinish(a) ==
  /\ pc = "runner"
  /\ ~RunnerDone
  /\ astatus[a] = "running"
  /\ LET nxt == AfterFinish(a) IN
       /\ seq_idx' = nxt.seq
       /\ loop_idx' = nxt.lidx
       /\ times_looped' = nxt.looped
       /\ astatus' = nxt.st
  /\ state' = IF output_key(a) = "" THEN state ELSE state \cup {output_key(a)}
  /\ IF a = "CriticAgent"
     THEN critique' \in {"APPROVED", "suggestions"}
     ELSE critique' = critique
  /\ UNCHANGED <<runs, escalate, exit_loop_status>>
  /\ UNCHANGED <<xvars, ivars, rvars>>

\* a running agent calls one of its AgentTool sub-agents, which runs to its end
AgentToolCall(a, t) ==
  /\ pc = "runner"
  /\ astatus[a] = "running"
  /\ t \in agent_tools(a)
  /\ runs[t] < MaxToolCalls
  /\ runs' = [runs EXCEPT ![t] = @ + 1]
  /\ astatus' = [astatus EXCEPT ![t] = "done"]
  /\ state' = state \cup {output_key(t)}
  /\ UNCHANGED <<seq_idx, loop_idx, times_looped, critique, escalate, exit_loop_status>>
  /\ UNCHANGED <<xvars, ivars, rvars>>

\* a running agent calls its FunctionTool exit_loop
CallExitLoop(a) ==
  /\ pc = "runner"
  /\ astatus[a] = "running"
  /\ "exit_loop" \in function_tools(a)
  /\ exit_loop_status' = exit_loop.status
  /\ UNCHANGED <<seq_idx, loop_idx, times_looped, astatus, runs, state, critique, escalate>>
  /\ UNCHANGED <<xvars, ivars, rvars>>

----------------------------------------------------------------------------
(* Responses the two extractors are applied to *)

MaxHist == 3

StoryA == Fill("a", 51)
StoryB == Fill("b", 51)
StoryC == Fill("c", 60)
StoryD == Fill("d", 55)
Fifty == Fill("f", 50)
Short == <<"o", "k">>
Note == <<"n", "o", "t", "e">>
Plain == <<"p", "l", "a", "i", "n">>
Key == <<"k", "e", "y">>
LongApproved == Fill("x", 45) \o APPROVED
HalfG == Fill("g", 26)
HalfH == Fill("h", 26)
SplitHead == Fill("s", 47) \o <<"A", "P", "P", "R">>
SplitTail == <<"O", "V", "E", "D">> \o Fill("t", 47)

NoAuthor == "<absent>"
NoContent == [pst |-> "absent", parts |-> <<>>, text |-> Absent]

Part(text, fc) == [text |-> text, fc |-> fc]

\* an event of the SDK shape: author, content.parts, no other text field
PartsEvent(author, parts) ==
  [author |-> author, cst |-> "obj",
   content |-> [pst |-> "list", parts |-> parts, text |-> Absent],
   text |-> Absent, output_key |-> Absent]

\* an event without usable parts
FlatEvent(cst, pst, ctext, etext, okey) ==
  [author |-> NoAuthor, cst |-> cst,
   content |-> IF cst = "obj" THEN [pst |-> pst, parts |-> <<>>, text |-> ctext] ELSE NoContent,
   text |-> etext, output_key |-> okey]

Events ==
  { PartsEvent("InitialWriterAgent", <<Part(StoryA, "absent")>>),
    PartsEvent("RefinerAgent", <<Part(StoryB, "absent")>>),
    PartsEvent("CriticAgent", <<Part(APPROVED, "absent")>>),
    PartsEvent("RefinerAgent", <<Part(LongApproved, "absent")>>),
    PartsEvent("RefinerAgent", <<Part(StoryC, "absent"), Part(Absent, "call")>>),
    PartsEvent("RefinerAgent", <<Part(None, "call")>>),
    PartsEvent("CriticAgent", <<Part(HalfG, "absent"), Part(<<>>, "absent"),
                                Part(HalfH, "absent")>>),
    PartsEvent("RefinerAgent", <<Part(SplitHead, "absent"), Part(SplitTail, "absent")>>),
    PartsEvent("InitialWriterAgent", <<Part(StoryD, "none")>>),
    PartsEvent("RefinerAgent", <<Part(NotExtractedMsg, "absent")>>),
    PartsEvent("CriticAgent", <<Part(Fifty, "absent")>>),
    PartsEvent("CriticAgent", <<Part(Short, "absent"), Part(Absent, "call")>>),
    FlatEvent("obj", "none", Note, Plain, Key),
    FlatEvent("obj", "list", <<>>, Plain, Key),
    FlatEvent("obj", "absent", Absent, Plain, Key),
    FlatEvent("none", "absent", Absent, Plain, Key),
    FlatEvent("absent", "absent", Absent, Absent, Key),
    FlatEvent("none", "absent", Absent, Absent, None),
    FlatEvent("absent", "absent", Absent, Absent, Absent) }

Histories == UNION { [1..n -> Events] : n \in 0..MaxHist }

Responses ==
  { [isNone |-> TRUE, events |-> <<>>] } \cup { [isNone |-> FALSE, events |-> h] : h \in Histories }

TextUnset == [value |-> Unset, level |-> 0]
StoryUnset == [value |-> Unset, idx |-> 0, branch |-> "unset"]

MaxRunHist == 1

\* events of the shapes a run hands back: text parts with function_call None or
\* without it, a function-call part, an event with only an output_key, a bare one
RunnerEvents ==
  { PartsEvent("InitialWriterAgent", <<Part(StoryD, "none")>>),
    PartsEvent("CriticAgent", <<Part(APPROVED, "absent")>>),
    PartsEvent("CriticAgent", <<Part(HalfG, "absent"), Part(<<>>, "absent"),
                                Part(HalfH, "absent")>>),
    PartsEvent("RefinerAgent", <<Part(None, "call")>>),
    PartsEvent("RefinerAgent", <<Part(NotExtractedMsg, "absent")>>),
    FlatEvent("absent", "absent", Absent, Absent, Key),
    FlatEvent("absent", "absent", Absent, Absent, Absent) }

\* what `await runner.run_debug(...)` may hand back to a demo
RunnerResponses ==
  { [isNone |-> TRUE, events |-> <<>>] }
    \cup { [isNone |-> FALSE, events |-> h] :
             h \in UNION { [1..n -> RunnerEvents] : n \in 0..MaxRunHist } }

----------------------------------------------------------------------------
(* AgentArchitecturesDemo.run and the console glue of the demos *)

\* demo_4_loop_workflow: which completion line follows the printed story
CompletionMessage(story_text) ==
  IF story_text # NotExtractedMsg
  THEN "Story refinement completed successfully!"
  ELSE "Story refinement completed! The loop exited after approval."

\* variant: the branch of choice '3' awaiting demo_2_sequential_workflow
DemoOf_copy_paste(c) ==
  CASE c = <<"1">> -> 1
    [] c = <<"2">> -> 2
    [] c = <<"3">> -> 2
    [] c = <<"4">> -> 4
    [] OTHER -> 0

\* the if/elif chain of run(): the demo coroutine a choice awaits (0: none)
DemoOf(c) ==
  CASE c = <<"1">> -> 1
    [] c = <<"2">> -> 2
    [] c = <<"3">> -> 3
    [] c = <<"4">> -> 4
    [] OTHER -> 0

\* if choice in ['1', '2', '3', '4', '5']
PauseChoices == { <<"1">>, <<"2">>, <<"3">>, <<"4">>, <<"5">> }

\* where run() goes after the if/elif chain has returned normally
AfterChoice == IF choice \in PauseChoices THEN "pause" ELSE "menu"

\* demos 1, 2 and 4 ask for a topic; demo 3 runs a fixed query
HasPrompt(k) == k \in {1, 2, 4}

DefaultTopic(k) ==
  CASE k = 1 ->
         <<"l", "a", "t", "e", "s", "t", " ", "a", "d", "v", "a", "n", "c",
           "e", "m", "e", "n", "t", "s", " ", "i", "n", " ", "q", "u", "a",
           "n", "t", "u", "m", " ", "c", "o", "m", "p", "u", "t", "i", "n",
           "g", " ", "a", "n", "d", " ", "w", "h", "a", "t", " ", "t", "h",
           "e", "y", " ", "m", "e", "a", "n", " ", "f", "o", "r", " ", "A",
           "I">>
    [] k = 2 ->
         <<"b", "e", "n", "e", "f", "i", "t", "s", " ", "o", "f", " ", "m",
           "u", "l", "t", "i", "-", "a", "g", "e", "n", "t", " ", "s", "y",
           "s", "t", "e", "m", "s", " ", "f", "o", "r", " ", "s", "o", "f",
           "t", "w", "a", "r", "e", " ", "d", "e", "v", "e", "l", "o", "p",
           "e", "r", "s">>
    [] k = 4 ->
         <<"a", " ", "l", "i", "g", "h", "t", "h", "o", "u", "s", "e", " ",
           "k", "e", "e", "p", "e", "r", " ", "w", "h", "o", " ", "d", "i",
           "s", "c", "o", "v", "e", "r", "s", " ", "a", " ", "m", "y", "s",
           "t", "e", "r", "i", "o", "u", "s", ",", " ", "g", "l", "o", "w",
           "i", "n", "g", " ", "m", "a", "p">>
    [] OTHER -> <<>>

\* demo_4_loop_workflow wraps run_debug and the printing in try/except Exception
CatchesRunnerException(k) == k = 4

\* the heading demos 1-3 print above the extracted text
ResultHeading(k) ==
  CASE k = 1 -> "Final Summary"
    [] k = 2 -> "Final Blog Post"
    [] k = 3 -> "Executive Summary"

RInit ==
  /\ pc = "menu"
  /\ choice = <<>>
  /\ demo = 0
  /\ demoStarts = [k \in 1..4 |-> 0]
  /\ out = ""
  /\ topic = <<>>
  /\ reads = 0
  /\ eof = FALSE

XIdle ==
  /\ response = [isNone |-> TRUE, events |-> <<>>]
  /\ text_result = [value |-> Unset, level |-> 0]
  /\ story_result = [value |-> Unset, idx |-> 0, branch |-> "unset"]

Init == RInit /\ GInit /\ XIdle

\* while True: self.show_menu(); choice = input(...).strip(), EOFError: break
Run_Menu ==
  /\ pc = "menu"
  /\ \/ /\ \E line \in InputLines : InputLine(line) /\ choice' = strip(line)
        /\ out' = "Select an option (1-6): "
        /\ pc' = "dispatch"
        /\ demo' = 0
        /\ UNCHANGED <<demoStarts, topic>>
     \/ /\ InputEOF
        /\ out' = "Input ended. Goodbye!"
        /\ pc' = "exited"
        /\ UNCHANGED <<choice, demo, demoStarts, topic>>
  /\ UNCHANGED <<xvars, gvars>>

\* the if/elif chain up to the first await, print or break
Run_Dispatch ==
  /\ pc = "dispatch"
  /\ \/ /\ DemoOf(choice) # 0
        /\ demo' = DemoOf(choice)
        /\ demoStarts' = [demoStarts EXCEPT ![DemoOf(choice)] = @ + 1]
        /\ NewRunner
        /\ out' = "DEMO"
        /\ pc' = IF HasPrompt(DemoOf(choice)) THEN "prompt" ELSE "runner"
        /\ UNCHANGED <<choice, topic>>
     \/ /\ DemoOf(choice) = 0
        /\ choice = <<"5">>
        /\ out' = "AGENT ARCHITECTURE DECISION GUIDE"
        /\ pc' = AfterChoice
        /\ UNCHANGED <<choice, demo, demoStarts, topic, gvars>>
     \/ /\ DemoOf(choice) = 0
        /\ choice = <<"6">>
        /\ out' = "Thanks for exploring agent architectures!"
        /\ pc' = "exited"
        /\ UNCHANGED <<choice, demo, demoStarts, topic, gvars>>
     \/ /\ DemoOf(choice) = 0
        /\ choice \notin {<<"5">>, <<"6">>}
        /\ out' = "Invalid choice. Please select 1-6."
        /\ pc' = AfterChoice
        /\ UNCHANGED <<choice, demo, demoStarts, topic, gvars>>
  /\ UNCHANGED <<xvars, ivars>>

\* try: topic = input(...).strip() except EOFError: topic = ""; if not topic: default
Demo_Prompt ==
  /\ pc = "prompt"
  /\ \/ \E line \in InputLines :
          /\ InputLine(line)
          /\ topic' = IF strip(line) = <<>> THEN DefaultTopic(demo) ELSE strip(line)
     \/ /\ InputEOF
        /\ topic' = DefaultTopic(demo)
  /\ out' = "topic"
  /\ pc' = "runner"
  /\ UNCHANGED <<choice, demo, demoStarts>>
  /\ UNCHANGED <<xvars, gvars>>

\* run_debug has returned: response = ...; the demo extracts the text (demo 4:
\* the story), prints it (demo 4: then the completion line) and returns
Demo_Return ==
  /\ pc = "runner"
  /\ RunnerDone
  /\ \E r \in RunnerResponses :
       /\ response' = r
       /\ IF demo = 4
          THEN /\ story_result' = StoryTrace(r)
               /\ text_result' = text_result
               /\ out' = CompletionMessage(extract_story_from_loop_response(r))
          ELSE /\ text_result' = TextTrace(r)
               /\ story_result' = story_result
               /\ out' = ResultHeading(demo)
  /\ pc' = AfterChoice
  /\ UNCHANGED <<choice, demo, demoStarts, topic>>
  /\ UNCHANGED <<ivars, gvars>>

\* what can come out of an awaited run_debug: an Exception, a KeyboardInterrupt,
\* or a BaseException no except clause of run() names (asyncio.CancelledError)
Raisable == {"Exception", "KeyboardInterrupt", "CancelledError"}

\* a running agent raises exc out of run_debug
AgentRaise(a, exc) ==
  /\ pc = "runner"
  /\ astatus[a] = "running"
  /\ \/ /\ exc = "Exception"
        /\ CatchesRunnerException(demo)
        /\ out' = "Error during story generation"
        /\ pc' = AfterChoice
     \/ /\ exc = "Exception"
        /\ ~CatchesRunnerException(demo)
        /\ out' = out
        /\ pc' = "handler"
     \/ /\ exc = "KeyboardInterrupt"
        /\ out' = "Demo interrupted. Goodbye!"
        /\ pc' = "exited"
     \/ /\ exc = "CancelledError"
        /\ out' = out
        /\ pc' = "raised"
  /\ astatus' = [astatus EXCEPT ![a] = "raised"]
  /\ UNCHANGED <<seq_idx, loop_idx, times_looped, runs, state, critique, escalate,
                 exit_loop_status>>
  /\ UNCHANGED <<choice, demo, demoStarts, topic>>
  /\ UNCHANGED <<xvars, ivars>>

\* except Exception as e: print(...); input(...)
Run_ExceptHandler ==
  /\ pc = "handler"
  /\ out' = "Error running demo"
  /\ \/ /\ \E line \in InputLines : InputLine(line)
        /\ pc' = "menu"
     \/ /\ InputEOF
        /\ pc' = "raised"
  /\ UNCHANGED <<choice, demo, demoStarts, topic>>
  /\ UNCHANGED <<xvars, gvars>>

\* try: input("Press Enter to return to main menu...") except EOFError: print(...)
\* The awaited demo has returned: its locals (response, response_text / story_text)
\* no longer exist.
Run_Pause ==
  /\ pc = "pause"
  /\ \/ /\ \E line \in InputLines : InputLine(line)
        /\ out' = "Press Enter to return to main menu..."
     \/ /\ InputEOF
        /\ out' = "Returning to main menu..."
  /\ pc' = "menu"
  /\ UNCHANGED <<choice, demo, demoStarts, topic>>
  /\ response' = [isNone |-> TRUE, events |-> <<>>]
  /\ text_result' = TextUnset
  /\ story_result' = StoryUnset
  /\ UNCHANGED gvars

Next ==
  \/ Run_Menu
  \/ Run_Dispatch
  \/ Demo_Prompt
  \/ \E a \in Agents : AgentStart(a)
  \/ \E a \in Agents : AgentFinish(a)
  \/ \E a \in Agents : \E t \in Agents : AgentToolCall(a, t)
  \/ \E a \in Agents : CallExitLoop(a)
  \/ \E a \in Agents : \E exc \in Raisable : AgentRaise(a, exc)
  \/ Demo_Return
  \/ Run_ExceptHandler
  \/ Run_Pause

Spec == Init /\ [][Next]_vars

\* every step of run() and of the runner that can be taken is eventually taken
FairSpec == Spec /\ WF_vars(Next)

----------------------------------------------------------------------------
(* The two extractors applied to every response *)

InitExtract ==
  /\ response \in Responses
  /\ text_result = TextUnset
  /\ story_result = StoryUnset
  /\ RInit
  /\ GInit

\* response_text = extract_response_text(response)
CallExtractResponseText ==
  /\ text_result = TextUnset
  /\ text_result' = TextTrace(response)
  /\ UNCHANGED <<response, story_result, ivars, gvars, rvars>>

\* story_text = extract_story_from_loop_response(response)
CallExtractStory ==
  /\ story_result = StoryUnset
  /\ story_result' = StoryTrace(response)
  /\ UNCHANGED <<response, text_result, ivars, gvars, rvars>>

\* demo_4_loop_workflow after story_text is set: print the story, then the
\* completion line
Demo4_PrintCompletion ==
  /\ story_result # StoryUnset
  /\ out = ""
  /\ out' = CompletionMessage(story_result.value)
  /\ UNCHANGED <<xvars, ivars, gvars, pc, choice, demo, demoStarts, topic>>

NextExtract == CallExtractResponseText \/ CallExtractStory \/ Demo4_PrintCompletion

SpecExtract == InitExtract /\ [][NextExtract]_vars

----------------------------------------------------------------------------
(* Claims about the extractors, checked under SpecExtract *)

StoryDone == story_result # StoryUnset
TextDone == text_result # TextUnset

\* one of the parts of the event carries a function call
CarriesFunctionCall(e) ==
  HasParts(e) /\ \E i \in 1..Len(e.content.parts) : e.content.parts[i].fc = "call"

\* the event has parts, none carries a function call, and its joined text is a story
IsStoryEvent(e) ==
  /\ HasParts(e)
  /\ ~CarriesFunctionCall(e)
  /\ Len(JoinText(e.content.parts)) > 50
  /\ ~Contains(JoinText(e.content.parts), APPROVED)

StoryEvents(r) == { i \in 1..Len(r.events) : IsStoryEvent(r.events[i]) }

LatestStoryEvent(r) == CHOOSE i \in StoryEvents(r) : \A j \in StoryEvents(r) : j <= i

\* C1: whenever the history holds an event without function call whose joined text
\* is a story, extract_story_from_loop_response returns the joined text of the
\* latest such event.
C1_ReturnsLatestStory ==
  (StoryDone /\ StoryEvents(response) # {})
    => story_result.value
         = JoinText(response.events[LatestStoryEvent(response)].content.parts)

\* C2: the text extract_story_from_loop_response returns never contains "APPROVED".
C2_NeverApproved ==
  StoryDone => ~Contains(story_result.value, APPROVED)

\* C3: extract_story_from_loop_response never returns text taken from an event one
\* of whose parts carries a function call.
C3_NeverFromFunctionCallEvent ==
  (StoryDone /\ story_result.idx > 0)
    => ~CarriesFunctionCall(response.events[story_result.idx])

\* the optional fields of an event, in priority order
PartsTextPresent(e) ==
  /\ e.cst = "obj"
  /\ e.content.pst = "list"
  /\ \E i \in 1..Len(e.content.parts) :
       e.content.parts[i].text \notin {Absent, None, <<>>}
ContentTextPresent(e) == e.cst = "obj" /\ e.content.text # Absent
EventTextPresent(e) == e.text # Absent
OutputKeyPresent(e) == e.output_key # Absent

ContentTextEmpty(e) == e.cst # "obj" \/ e.content.text \in {Absent, None, <<>>}
EventTextEmpty(e) == e.text \in {Absent, None, <<>>}

RECURSIVE NonEmptyTexts(_)
NonEmptyTexts(parts) ==
  IF parts = <<>> THEN <<>>
  ELSE LET t == Head(parts).text IN
    (IF t \in {Absent, None, <<>>} THEN <<>> ELSE t) \o NonEmptyTexts(Tail(parts))

\* C4: extract_response_text reads the last event only and falls back through
\* parts text, content.text, event.text, output_key and the fixed message in that
\* order; a lower field is used only when every higher one is absent or empty; a
\* None or empty response gives "No response received.".
C4_FallbackOrder ==
  TextDone =>
    IF response.isNone \/ response.events = <<>>
    THEN text_result.value = NoResponseMsg
    ELSE LET e == response.events[Len(response.events)]
             v == text_result.value
             l == text_result.level
         IN
      /\ PartsTextPresent(e) => v = NonEmptyTexts(e.content.parts)
      /\ (~PartsTextPresent(e) /\ ContentTextPresent(e)) => v = e.content.text
      /\ (~PartsTextPresent(e) /\ ~ContentTextPresent(e) /\ EventTextPresent(e))
           => v = e.text
      /\ (~PartsTextPresent(e) /\ ~ContentTextPresent(e) /\ ~EventTextPresent(e)
             /\ OutputKeyPresent(e))
           => v = FunctionExecutedPrefix
                    \o (IF e.output_key \in {None, <<>>} THEN TaskCompleted
                        ELSE e.output_key)
      /\ (~PartsTextPresent(e) /\ ~ContentTextPresent(e) /\ ~EventTextPresent(e)
             /\ ~OutputKeyPresent(e))
           => v = NotExtractedMsg
      /\ l >= 2 => ~PartsTextPresent(e)
      /\ l >= 3 => ContentTextEmpty(e)
      /\ l >= 4 => EventTextEmpty(e)
      /\ l >= 5 => ~OutputKeyPresent(e)

\* a two-event response whose last event has every fallback field and whose
\* content.text is the one returned
C4_Witness ==
  /\ TextDone
  /\ Len(response.events) = 2
  /\ response.events[1] # response.events[2]
  /\ text_result.level = 2
  /\ text_result.value = Note
  /\ response.events[2].text = Plain
  /\ response.events[2].output_key = Key

----------------------------------------------------------------------------
(* Claims about the agent graphs and run(), checked under Spec and FairSpec *)

\* C5: in demo 4 CriticAgent and RefinerAgent each run at most 2 times, the refiner
\* never more often than the critic, and the runner then leaves the graph, whatever
\* the critic answers.
C5_BoundedRefinement ==
  /\ [](demo = 4 => /\ runs["CriticAgent"] <= 2
                    /\ runs["RefinerAgent"] <= 2
                    /\ runs["RefinerAgent"] <= runs["CriticAgent"])
  /\ ((pc = "runner" /\ demo = 4) ~> (pc # "runner"))

\* both iterations have run without the critic approving, and demo 4 has returned
C5_Witness ==
  /\ demo = 4
  /\ pc = "pause"
  /\ runs["CriticAgent"] = 2
  /\ runs["RefinerAgent"] = 2
  /\ astatus["RefinerAgent"] = "done"
  /\ critique = "suggestions"

BlogAgents == {"OutlineAgent", "WriterAgent", "EditorAgent"}

BlogOrder ==
  /\ runs["WriterAgent"] >= 1
       => (astatus["OutlineAgent"] = "done" /\ "blog_outline" \in state)
  /\ runs["EditorAgent"] >= 1
       => (astatus["WriterAgent"] = "done" /\ "blog_draft" \in state)

\* C6 as stated: the order holds and, in every run of demo 2, once the run is over
\* each of the three agents has run exactly once.
C6_ExactlyOnceEveryRun ==
  demo = 2 =>
    /\ BlogOrder
    /\ pc \notin {"prompt", "runner"} => \A a \in BlogAgents : runs[a] = 1

\* C6 as amended: WriterAgent never starts before OutlineAgent has finished and
\* written blog_outline, EditorAgent never before WriterAgent has finished and
\* written blog_draft; each of the three runs at most once in a run, and exactly
\* once in every run whose pipeline completes.
C6_PipelineOrder ==
  demo = 2 =>
    /\ BlogOrder
    /\ \A a \in BlogAgents : runs[a] <= 1
    /\ RunnerDone => \A a \in BlogAgents : runs[a] = 1

\* the pipeline of demo 2 has completed and the demo has printed the blog post
C6_Witness ==
  /\ demo = 2
  /\ pc = "pause"
  /\ out = "Final Blog Post"
  /\ \A a \in BlogAgents : runs[a] = 1 /\ astatus[a] = "done"

Researchers == {"TechResearcher", "HealthResearcher", "FinanceResearcher"}

\* C7: AggregatorAgent has started only if the three researchers have all finished
\* and tech_research, health_research and finance_research are written.
C7_FanIn ==
  (demo = 3 /\ runs["AggregatorAgent"] >= 1) =>
    /\ \A r \in Researchers : astatus[r] = "done"
    /\ {"tech_research", "health_research", "finance_research"} \subseteq state

\* the aggregator is running after the three researchers have finished
C7_Witness ==
  /\ demo = 3
  /\ astatus["AggregatorAgent"] = "running"
  /\ \A r \in Researchers : astatus[r] = "done" /\ runs[r] = 1

\* C8: once run() has caught an exception of a demo it prints "Error running demo"
\* and goes back to the main menu.
C8_ExceptionReturnsToMenu ==
  [][pc = "handler" => (out' = "Error running demo" /\ pc' = "menu")]_vars

\* run() has ended by the EOFError of the prompt in its except Exception handler
EOFErrorLeftRun == pc = "raised" /\ eof /\ out = "Error running demo"

\* C9: no EOFError leaves run(), and with a finite input stream run() ends, by
\* leaving its loop unless the awaited demo was cancelled.
C9_EOFNeverPropagates ==
  /\ [](~EOFErrorLeftRun)
  /\ <>(pc = "exited" \/ (pc = "raised" /\ ~EOFErrorLeftRun))

Digits == <<"1", "2", "3", "4">>

\* C10: dispatching choice k in 1..4 starts demo k once and no other demo; 5 shows
\* the guide and 6 ends the loop, neither starting a demo; any other input prints the
\* invalid-choice message and goes straight back to the menu; nothing but a dispatch
\* starts a demo, and none starts after the loop has ended.
C10_MenuDispatch ==
  [][/\ \A k \in 1..4 :
          (pc = "dispatch" /\ choice = <<Digits[k]>>)
            => (demoStarts' = [demoStarts EXCEPT ![k] = @ + 1] /\ demo' = k
                /\ pc' \in {"prompt", "runner"})
     /\ (pc = "dispatch" /\ choice = <<"5">>)
          => (demoStarts' = demoStarts /\ pc' = "pause"
              /\ out' = "AGENT ARCHITECTURE DECISION GUIDE")
     /\ (pc = "dispatch" /\ choice = <<"6">>)
          => (demoStarts' = demoStarts /\ pc' = "exited")
     /\ (pc = "dispatch" /\ choice \notin {<<"1">>, <<"2">>, <<"3">>, <<"4">>, <<"5">>, <<"6">>})
          => (demoStarts' = demoStarts /\ pc' = "menu"
              /\ out' = "Invalid choice. Please select 1-6.")
     /\ pc # "dispatch" => demoStarts' = demoStarts
     /\ pc = "exited" => pc' = "exited"
    ]_vars

\* an invalid choice was rejected after demo 3 had been started once by choice 3
C10_Witness ==
  /\ pc = "menu"
  /\ out = "Invalid choice. Please select 1-6."
  /\ demoStarts = [k \in 1..4 |-> IF k = 3 THEN 1 ELSE 0]
  /\ demo = 0

----------------------------------------------------------------------------
(* Claims settled after the first ten *)

\* a text-only event: every part has a function_call field holding None, and the
\* joined text is a story
IsNoneCallStoryEvent(e) ==
  /\ HasParts(e)
  /\ \A i \in 1..Len(e.content.parts) : e.content.parts[i].fc = "none"
  /\ Len(JoinText(e.content.parts)) > 50
  /\ ~Contains(JoinText(e.content.parts), APPROVED)

\* C11: a part whose function_call is None does not exclude its event: the scan
\* never passes over a text-only story event whose parts all have function_call =
\* None, so the result is read from that event or a later one, and when it is read
\* from that event it is the text scan that returns its joined text.
C11_NoneCallNotExcluded ==
  StoryDone =>
    \A i \in 1..Len(response.events) :
      IsNoneCallStoryEvent(response.events[i]) =>
        /\ story_result.branch \in {"scan", "refiner"}
        /\ story_result.idx >= i
        /\ story_result.idx = i =>
             /\ story_result.branch = "scan"
             /\ story_result.value = JoinText(response.events[i].content.parts)

\* the story text was read from an event, not made up as a fallback message
StoryReadFromEvent ==
  \/ story_result.branch \in {"scan", "refiner"}
  \/ story_result.branch = "fallback" /\ TextTrace(response).level \in {1, 2, 3}

\* C12: "Story refinement completed successfully!" is printed only when the story
\* text was read from an event of the response; when the extractor yields one of
\* its fallback messages ("No response received.", "Function executed: ...",
\* "Response received but text content could not be extracted.") in place of a
\* text of an event, the other completion line is printed.
C12_SuccessOnlyForExtractedStory ==
  (StoryDone /\ out # "") =>
    /\ out = "Story refinement completed successfully!" => StoryReadFromEvent
    /\ ~StoryReadFromEvent
         => out = "Story refinement completed! The loop exited after approval."

\* C13: once RefinerAgent has called exit_loop on a critique that is exactly
\* APPROVED in the first iteration, neither CriticAgent nor RefinerAgent is
\* started again in that run.
C13_ExitLoopStopsLoop ==
  [][(/\ pc = "runner"
      /\ demo = 4
      /\ critique = "APPROVED"
      /\ exit_loop_status = "approved"
      /\ runs["CriticAgent"] = 1
      /\ runs["RefinerAgent"] = 1)
       => (runs'["CriticAgent"] = 1 /\ runs'["RefinerAgent"] = 1)]_vars

====
